---------------------------- MODULE Spec2Model ----------------------------
(***************************************************************************)
(* Model of the resource-read handler of the HiveFlow MCP server           *)
(* (src/src/index.js, the ReadResourceRequestSchema handler): the URI      *)
(* router, the response normalizer createValidResponse and the two         *)
(* try/catch boundaries around them.                                       *)
(*                                                                         *)
(* JavaScript values are records tagged by their type.  A string is a      *)
(* sequence of tokens whose concatenation is the string; the tokens are    *)
(* chosen so that every occurrence of a pattern the code searches for      *)
(* ('hiveflow://flows/', '/executions') falls on token boundaries: the     *)
(* character '/' occurs only as the token "/".                             *)
(***************************************************************************)
EXTENDS Integers, Sequences, FiniteSets, TLC

(***************************************************************************)
(* Bounds of the model.                                                    *)
(***************************************************************************)
\* most path segments after 'hiveflow://flows' in a requested URI
MaxSegments == 3
\* longest flow list the backend returns for GET /api/flows
MaxFlows == 6

(***************************************************************************)
(* JavaScript values.                                                      *)
(***************************************************************************)
Undefined == [t |-> "undefined"]
Null == [t |-> "null"]
Str(s) == [t |-> "string", s |-> s]
Num(n) == [t |-> "number", n |-> n]
Arr(xs) == [t |-> "array", xs |-> xs]
Obj(f) == [t |-> "object", f |-> f]
\* an object graph that refers to itself
Cyclic == [t |-> "cyclic"]
\* a function value (JSON.stringify gives undefined for it)
Func == [t |-> "function"]
\* new Date().toISOString() at time `now`: a string
Timestamp(now) == [t |-> "timestamp", at |-> now]
\* the string JSON.stringify returns: the text of the JSON value j
JsonText(j) == [t |-> "jsontext", j |-> j]

\* true, false
Bool(b) == [t |-> "boolean", b |-> b]

\* JavaScript truthiness, as used by  x || y  and  if (x)
Truthy(v) ==
  /\ v.t \notin {"undefined", "null"}
  /\ ~(v.t = "boolean" /\ ~v.b)
  /\ ~(v.t = "string" /\ v.s = <<>>)
  /\ ~(v.t = "number" /\ v.n = 0)

\* x || y
Or(x, y) == IF Truthy(x) THEN x ELSE y

\* typeof v === 'string'
IsString(v) == v.t \in {"string", "timestamp", "jsontext"}

\* v.length === 0 for a string v (JSON text and dates are never empty)
IsEmptyString(v) == v.t = "string" /\ v.s = <<>>

\* the tokens of String(v): the string itself, or the name of what v is
ToTokens(v) == IF v.t = "string" THEN v.s ELSE <<v.t>>

\* a + b where a is a string
Concat(a, b) == Str(a.s \o ToTokens(b))

\* obj?.field : undefined unless obj is an object that has the field
Get(obj, field) ==
  IF obj.t = "object" /\ field \in DOMAIN obj.f THEN obj.f[field] ELSE Undefined

(***************************************************************************)
(* String.prototype.startsWith, includes and replace (string pattern:      *)
(* the first occurrence only), on token sequences.                         *)
(***************************************************************************)
OccursAt(s, p, i) ==
  /\ i >= 1
  /\ i + Len(p) - 1 <= Len(s)
  /\ \A k \in 1..Len(p) : s[i + k - 1] = p[k]

startsWith(s, p) == OccursAt(s, p, 1)

includes(s, p) == \E i \in 1..(Len(s) + 1) : OccursAt(s, p, i)

replace(s, p, r) ==
  IF ~includes(s, p) THEN s
  ELSE LET i == CHOOSE i \in 1..(Len(s) + 1) :
                  /\ OccursAt(s, p, i)
                  /\ \A j \in 1..(i - 1) : ~OccursAt(s, p, j)
       IN  SubSeq(s, 1, i - 1) \o r \o SubSeq(s, i + Len(p), Len(s))

(***************************************************************************)
(* JSON.stringify(value, null, 2).  It throws on a circular structure,     *)
(* returns undefined (not a string) for undefined and for a function,      *)
(* drops the fields of an object whose value is undefined or a function,   *)
(* and writes null for such an element of an array.                        *)
(***************************************************************************)
RECURSIVE HasCycle(_)
HasCycle(v) ==
  CASE v.t = "cyclic" -> TRUE
    [] v.t = "array" -> \E i \in 1..Len(v.xs) : HasCycle(v.xs[i])
    [] v.t = "object" -> \E k \in DOMAIN v.f : HasCycle(v.f[k])
    [] OTHER -> FALSE

Omitted(v) == v.t \in {"undefined", "function"}

RECURSIVE ToJson(_)
ToJson(v) ==
  CASE v.t = "array" ->
         Arr([i \in 1..Len(v.xs) |->
                IF Omitted(v.xs[i]) THEN Null ELSE ToJson(v.xs[i])])
    [] v.t = "object" ->
         Obj([k \in {k \in DOMAIN v.f : ~Omitted(v.f[k])} |-> ToJson(v.f[k])])
    [] OTHER -> v

\* the outcome of a call: a value returned, or an exception thrown
Return(v) == [t |-> "return", v |-> v]
Throw(e) == [t |-> "throw", e |-> e]

\* an Error object: message, and the fields axios adds (code, response)
Error(message, code, response) ==
  Obj([message |-> message, code |-> code, response |-> response])

TypeError(message) == Error(Str(<<message>>), Undefined, Undefined)

JSONstringify(v) ==
  IF HasCycle(v)
    THEN Throw(TypeError("Converting circular structure to JSON"))
  ELSE IF Omitted(v) THEN Return(Undefined)
  ELSE Return(JsonText(ToJson(v)))


(***************************************************************************)
(* The configuration and the constants of the handler.                     *)
(***************************************************************************)
\* this.hiveflowClient.defaults.baseURL (the default of --api-url)
baseURL == Str(<<"http://localhost:3001">>)

\* flows.slice(0, 5)
MaxAggregatedFlows == 5
\* /api/flows/${flow._id}/processes?limit=10
AggregateLimit == 10
\* params: { limit: 20 }
TemplateLimit == 20

mimeType == "application/json"

\* the three literal addresses (ListResourcesRequestSchema)
FlowsUri == <<"hiveflow:", "/", "/", "flows">>
McpServersUri == <<"hiveflow:", "/", "/", "mcp-servers">>
ExecutionsUri == <<"hiveflow:", "/", "/", "executions">>
\* 'hiveflow://flows/' and '/executions', the patterns of the default branch
FlowsPrefix == <<"hiveflow:", "/", "/", "flows", "/">>
ExecutionsSuffix == <<"/", "executions">>

\* the payload of the not-found response
Catalog ==
  Obj([availableResources |->
         Arr(<<Str(FlowsUri), Str(McpServersUri), Str(ExecutionsUri)>>),
       availableTemplates |->
         Arr(<<Str(FlowsPrefix \o <<"{flowId}">>),
               Str(FlowsPrefix \o <<"{flowId}">> \o ExecutionsSuffix)>>)])

\* one resource-read response: a single content item
Response(uri, text) ==
  [contents |-> <<[uri |-> uri, mimeType |-> mimeType, text |-> text]>>]

(***************************************************************************)
(* createValidResponse(data, errorMsg = null), closed over the request's   *)
(* uri; `now` is the time new Date() reads.  Returns a response, or throws *)
(* when the JSON.stringify of its catch block throws.                      *)
(***************************************************************************)
\* the first JSON.stringify with the time of the failure written into the
\* error message instead of being kept to the timestamp field
SerializedTextDated(data, errorMsg, uri, now) ==
  IF Truthy(errorMsg)
    THEN JSONstringify(Obj([error |-> [t |-> "string",
                                       s |-> errorMsg.s \o <<" at ">>,
                                       at |-> now],
                            uri |-> uri,
                            timestamp |-> Timestamp(now),
                            data |-> Or(data, Null)]))
    ELSE JSONstringify(Or(data, Arr(<<>>)))

\* lines 326-352: the first JSON.stringify and its catch
SerializedText(data, errorMsg, uri, now) ==
  LET first == IF Truthy(errorMsg)
                 THEN JSONstringify(Obj([error |-> errorMsg,
                                         uri |-> uri,
                                         timestamp |-> Timestamp(now),
                                         data |-> Or(data, Null)]))
                 ELSE JSONstringify(Or(data, Arr(<<>>)))
  IN  IF first.t = "throw"
        THEN JSONstringify(Obj([error |-> Concat(Str(<<"Error al serializar datos: ">>),
                                                 Get(first.e, "message")),
                                uri |-> uri,
                                timestamp |-> Timestamp(now)]))
        ELSE first

\* the text taken as it is, without the test of line 355
NonEmptyTextUnchecked(text, uri, now) == Return(text)

\* lines 354-362: text is never undefined, null or empty
NonEmptyText(text, uri, now) ==
  IF ~IsString(text) \/ IsEmptyString(text)
    THEN JSONstringify(Obj([error |-> Str(<<"Respuesta vacia">>),
                            uri |-> uri,
                            timestamp |-> Timestamp(now)]))
    ELSE Return(text)

\* lines 385-402: the final validation of the result
FinalValidation(text, uri, now) ==
  IF ~IsString(text)
    THEN LET t == JSONstringify(Obj([error |-> Str(<<"Error interno: no se pudo generar respuesta valida">>),
                                     timestamp |-> Timestamp(now),
                                     debug |-> Str(<<"createValidResponse fallo en validacion final">>)]))
         IN  IF t.t = "throw" THEN t
             ELSE Return(Response(Or(uri, Str(<<"unknown">>)), t.v))
    ELSE Return(Response(uri, text))

createValidResponse(data, errorMsg, uri, now) ==
  LET text == SerializedText(data, errorMsg, uri, now)
  IN  IF text.t = "throw" THEN text
      ELSE LET checked == NonEmptyText(text.v, uri, now)
           IN  IF checked.t = "throw" THEN checked
               ELSE FinalValidation(checked.v, uri, now)

(***************************************************************************)
(* Backend calls (this.hiveflowClient.get) and the handler's position.     *)
(***************************************************************************)
\* GET on an endpoint; limit 0 stands for a call without a limit
Call(endpoint, id, limit) == [endpoint |-> endpoint, id |-> id, limit |-> limit]

\* the locals of a handler suspended at an await
Frame(route, uri, flowId, flows, idx, allExecutions) ==
  [route |-> route, uri |-> uri, flowId |-> flowId, flows |-> flows,
   idx |-> idx, allExecutions |-> allExecutions]

\* the handler suspends at  await this.hiveflowClient.get(...)
Await(call, frame) == [t |-> "await", call |-> call, frame |-> frame]

\* apiError.code === 'ECONNREFUSED'
IsRefused(apiError) == Get(apiError, "code") = Str(<<"ECONNREFUSED">>)

\* apiError.response?.data?.message
ResponseMessage(apiError) == Get(Get(Get(apiError, "response"), "data"), "message")

\* a test of the body alone, without its success field
IsSuccessAnyBody(response) == Truthy(Get(response, "data"))

\* response.data && response.data.success
IsSuccess(response) ==
  Truthy(Get(response, "data")) /\ Truthy(Get(Get(response, "data"), "success"))

\* response.data?.message || 'Error desconocido'
MessageOrUnknown(response) ==
  Or(Get(Get(response, "data"), "message"), Str(<<"Error desconocido">>))

\* lines 436-441: the catch of the flows literal
flowsErrorMessage(apiError) ==
  IF IsRefused(apiError)
    THEN Concat(Concat(Str(<<"Backend no disponible en ">>), baseURL),
                Str(<<". Asegurate de que este corriendo.">>))
  ELSE IF Truthy(ResponseMessage(apiError)) THEN ResponseMessage(apiError)
  ELSE Str(<<"Error de conexion con el backend">>)

\* a catch that does not tell a refused connection from another failure
plainErrorMessageGeneric(apiError) == Str(<<"Error de conexion con el backend">>)

\* lines 457-460, 501-504, 527-530: the catch of the mcp-servers literal, of
\* the executions literal and of the executions template
plainErrorMessage(apiError) ==
  IF IsRefused(apiError)
    THEN Concat(Str(<<"Backend no disponible. Asegurate de que este corriendo en ">>),
                baseURL)
  ELSE Str(<<"Error de conexion con el backend">>)

\* lines 554-561: the catch of the single-flow template
flowErrorMessage(apiError, flowId) ==
  IF IsRefused(apiError)
    THEN Concat(Str(<<"Backend no disponible. Asegurate de que este corriendo en ">>),
                baseURL)
  ELSE IF Get(Get(apiError, "response"), "status") = Num(404)
    THEN Str(<<"Flujo con ID ">> \o flowId \o <<" no encontrado">>)
  ELSE IF Truthy(ResponseMessage(apiError)) THEN ResponseMessage(apiError)
  ELSE Str(<<"Error de conexion con el backend">>)

(***************************************************************************)
(* The branches of switch (uri), each from the point where its await       *)
(* completes with `reply` (the response returned, or the error thrown).    *)
(***************************************************************************)
\* case 'hiveflow://flows', lines 411-444
flowsLiteral(reply, uri, now) ==
  LET try ==
        IF reply.t = "throw" THEN reply
        ELSE IF IsSuccess(reply.v)
          THEN createValidResponse(Or(Get(Get(reply.v, "data"), "data"), Arr(<<>>)),
                                   Null, uri, now)
        ELSE createValidResponse(
               Arr(<<>>),
               Concat(Str(<<"No se pudieron obtener los flujos: ">>),
                      MessageOrUnknown(reply.v)),
               uri, now)
  IN  IF try.t = "throw"
        THEN createValidResponse(Arr(<<>>), flowsErrorMessage(try.e), uri, now)
        ELSE try

\* case 'hiveflow://mcp-servers', lines 448-462
mcpServersLiteral(reply, uri, now) ==
  LET try ==
        IF reply.t = "throw" THEN reply
        ELSE IF IsSuccess(reply.v)
          THEN createValidResponse(Or(Get(Get(reply.v, "data"), "servers"), Arr(<<>>)),
                                   Null, uri, now)
        ELSE createValidResponse(
               Arr(<<>>),
               Concat(Str(<<"No se pudieron obtener los servidores MCP: ">>),
                      MessageOrUnknown(reply.v)),
               uri, now)
  IN  IF try.t = "throw"
        THEN createValidResponse(Arr(<<>>), plainErrorMessage(try.e), uri, now)
        ELSE try

\* the record of a process without the identifier and the name of its flow
FlatExecutionUntagged(flow, process) ==
  Obj([processId |-> Get(process, "processId"),
       status |-> Get(process, "status"),
       startTime |-> Get(process, "startTime"),
       endTime |-> Get(process, "endTime"),
       duration |-> Get(process, "duration")])

\* lines 480-488: the record pushed for one process of one flow
FlatExecution(flow, process) ==
  Obj([flowId |-> Get(flow, "_id"),
       flowName |-> Get(flow, "name"),
       processId |-> Get(process, "processId"),
       status |-> Get(process, "status"),
       startTime |-> Get(process, "startTime"),
       endTime |-> Get(process, "endTime"),
       duration |-> Get(process, "duration")])

IsNullish(v) == v.t \in {"undefined", "null"}

\* lines 477-490: what one parent's reply adds to allExecutions.  A reply
\* without success adds nothing; processes.forEach throws (and the catch of
\* line 491 swallows it) when processes is no array, or at the first process
\* that is null, after the pushes made before it.
pushed(flow, response) ==
  IF ~IsSuccess(response) THEN <<>>
  ELSE LET processes == Or(Get(Get(response, "data"), "processes"), Arr(<<>>))
       IN  IF processes.t # "array" THEN <<>>
           ELSE LET bad == {i \in 1..Len(processes.xs) : IsNullish(processes.xs[i])}
                    n == IF bad = {} THEN Len(processes.xs)
                         ELSE (CHOOSE i \in bad : \A j \in bad : i <= j) - 1
                IN  [i \in 1..n |-> FlatExecution(flow, processes.xs[i])]

\* lines 474-496: the loop from flow number idx on, up to its next await or
\* to the return after the last flow.  Reading flow._id of a null flow throws
\* inside the try of line 475, and the loop goes on with the next flow.
RECURSIVE executionsLoop(_, _, _, _, _)
executionsLoop(flows, idx, allExecutions, uri, now) ==
  IF idx > Len(flows)
    THEN createValidResponse(Arr(allExecutions), Null, uri, now)
  ELSE IF IsNullish(flows[idx])
    THEN executionsLoop(flows, idx + 1, allExecutions, uri, now)
  ELSE Await(Call("processes", ToTokens(Get(flows[idx], "_id")), AggregateLimit),
             Frame("executions-loop", uri, <<>>, flows, idx, allExecutions))

\* the whole list, without the cut
sliceAll(xs, n) == xs

\* flows.slice(0, 5)
slice(xs, n) == SubSeq(xs, 1, IF Len(xs) < n THEN Len(xs) ELSE n)

\* the branch without the test of line 469: whatever the listing returned is
\* taken as the list of flows
executionsLiteralUnchecked(reply, uri, now) ==
  LET try ==
        IF reply.t = "throw" THEN reply
        ELSE LET flows == Or(Get(Get(reply.v, "data"), "data"), Arr(<<>>))
             IN  IF flows.t # "array"
                   THEN Throw(TypeError("flows.slice is not a function"))
                   ELSE executionsLoop(slice(flows.xs, MaxAggregatedFlows), 1, <<>>,
                                       uri, now)
  IN  IF try.t = "throw"
        THEN createValidResponse(Arr(<<>>), plainErrorMessage(try.e), uri, now)
        ELSE try

\* case 'hiveflow://executions', lines 466-506, after the flow list arrived
executionsLiteral(reply, uri, now) ==
  LET try ==
        IF reply.t = "throw" THEN reply
        ELSE IF IsSuccess(reply.v)
          THEN LET flows == Or(Get(Get(reply.v, "data"), "data"), Arr(<<>>))
               IN  IF flows.t # "array"
                     THEN Throw(TypeError("flows.slice is not a function"))
                     ELSE executionsLoop(slice(flows.xs, MaxAggregatedFlows), 1, <<>>,
                                         uri, now)
        ELSE createValidResponse(
               Arr(<<>>),
               Concat(Str(<<"No se pudieron obtener los flujos para buscar ejecuciones: ">>),
                      MessageOrUnknown(reply.v)),
               uri, now)
  IN  IF try.t = "throw"
        THEN createValidResponse(Arr(<<>>), plainErrorMessage(try.e), uri, now)
        ELSE try

\* the loop without the try of line 475: a failed lookup reaches the catch of
\* line 500 and fails the whole read
executionsLoopReplyFailFast(reply, frame, now) ==
  IF reply.t = "throw"
    THEN createValidResponse(Arr(<<>>), plainErrorMessage(reply.e), frame.uri, now)
    ELSE executionsLoop(frame.flows, frame.idx + 1,
                        frame.allExecutions \o pushed(frame.flows[frame.idx], reply.v),
                        frame.uri, now)

\* lines 476-506, after the processes of flow number frame.idx arrived
executionsLoopReply(reply, frame, now) ==
  LET added == IF reply.t = "throw" THEN <<>>
               ELSE pushed(frame.flows[frame.idx], reply.v)
      try == executionsLoop(frame.flows, frame.idx + 1,
                            frame.allExecutions \o added, frame.uri, now)
  IN  IF try.t = "throw"
        THEN createValidResponse(Arr(<<>>), plainErrorMessage(try.e), frame.uri, now)
        ELSE try

\* the template hiveflow://flows/{flowId}/executions, lines 515-532
flowExecutionsTemplate(reply, flowId, uri, now) ==
  LET try ==
        IF reply.t = "throw" THEN reply
        ELSE IF IsSuccess(reply.v)
          THEN createValidResponse(Or(Get(Get(reply.v, "data"), "processes"), Arr(<<>>)),
                                   Null, uri, now)
        ELSE createValidResponse(
               Arr(<<>>),
               Concat(Str(<<"No se pudieron obtener las ejecuciones del flujo ">>
                          \o flowId \o <<": ">>),
                      MessageOrUnknown(reply.v)),
               uri, now)
  IN  IF try.t = "throw"
        THEN createValidResponse(Arr(<<>>), plainErrorMessage(try.e), uri, now)
        ELSE try

\* the single-flow template handing the empty list to the error envelope, as
\* the branches of the lists do
flowTemplateEmptyList(reply, flowId, uri, now) ==
  LET try ==
        IF reply.t = "throw" THEN reply
        ELSE IF IsSuccess(reply.v)
          THEN createValidResponse(Or(Get(Get(reply.v, "data"), "data"),
                                      Get(Get(reply.v, "data"), "flow")),
                                   Null, uri, now)
        ELSE createValidResponse(
               Arr(<<>>),
               Concat(Str(<<"No se pudo obtener el flujo ">> \o flowId \o <<": ">>),
                      MessageOrUnknown(reply.v)),
               uri, now)
  IN  IF try.t = "throw"
        THEN createValidResponse(Arr(<<>>), flowErrorMessage(try.e, flowId), uri, now)
        ELSE try

\* the template hiveflow://flows/{flowId}, lines 537-563
flowTemplate(reply, flowId, uri, now) ==
  LET try ==
        IF reply.t = "throw" THEN reply
        ELSE IF IsSuccess(reply.v)
          THEN createValidResponse(Or(Get(Get(reply.v, "data"), "data"),
                                      Get(Get(reply.v, "data"), "flow")),
                                   Null, uri, now)
        ELSE createValidResponse(
               Null,
               Concat(Str(<<"No se pudo obtener el flujo ">> \o flowId \o <<": ">>),
                      MessageOrUnknown(reply.v)),
               uri, now)
  IN  IF try.t = "throw"
        THEN createValidResponse(Null, flowErrorMessage(try.e, flowId), uri, now)
        ELSE try

(***************************************************************************)
(* The handler: switch (uri) up to its first await, the continuation       *)
(* after an await, and the two catch blocks around them.                   *)
(***************************************************************************)
NoFrame == Frame("none", Undefined, <<>>, <<>>, 0, <<>>)

\* the default branch with the single-flow template tried first
defaultBranchFlowFirst(uri, now) ==
  IF startsWith(uri.s, FlowsPrefix)
    THEN LET flowId == replace(uri.s, FlowsPrefix, <<>>)
         IN  Await(Call("flow", flowId, 0),
                   Frame("flow", uri, flowId, <<>>, 0, <<>>))
  ELSE createValidResponse(Catalog,
                           Concat(Str(<<"Recurso no encontrado: ">>), uri),
                           uri, now)

\* lines 511-576: the default branch of the switch, for a string uri
defaultBranch(uri, now) ==
  IF startsWith(uri.s, FlowsPrefix) /\ includes(uri.s, ExecutionsSuffix)
    THEN LET flowId == replace(replace(uri.s, FlowsPrefix, <<>>), ExecutionsSuffix, <<>>)
         IN  Await(Call("processes", flowId, TemplateLimit),
                   Frame("flow-executions", uri, flowId, <<>>, 0, <<>>))
  ELSE IF startsWith(uri.s, FlowsPrefix) /\ ~includes(uri.s, ExecutionsSuffix)
    THEN LET flowId == replace(uri.s, FlowsPrefix, <<>>)
         IN  Await(Call("flow", flowId, 0),
                   Frame("flow", uri, flowId, <<>>, 0, <<>>))
  ELSE createValidResponse(Catalog,
                           Concat(Str(<<"Recurso no encontrado: ">>), uri),
                           uri, now)

\* lines 408-577: switch (uri) compares with ===; uri.startsWith throws a
\* TypeError when uri is no string
switchUri(uri, now) ==
  IF uri = Str(FlowsUri)
    THEN Await(Call("flows", <<>>, 0), Frame("flows", uri, <<>>, <<>>, 0, <<>>))
  ELSE IF uri = Str(McpServersUri)
    THEN Await(Call("mcp/servers", <<>>, 0),
               Frame("mcp-servers", uri, <<>>, <<>>, 0, <<>>))
  ELSE IF uri = Str(ExecutionsUri)
    THEN Await(Call("flows", <<>>, 0), Frame("executions", uri, <<>>, <<>>, 0, <<>>))
  ELSE IF uri.t # "string"
    THEN Throw(TypeError("uri.startsWith is not a function"))
  ELSE defaultBranch(uri, now)

\* the code after the await the frame is suspended at
resume(frame, reply, now) ==
  CASE frame.route = "flows" -> flowsLiteral(reply, frame.uri, now)
    [] frame.route = "mcp-servers" -> mcpServersLiteral(reply, frame.uri, now)
    [] frame.route = "executions" -> executionsLiteral(reply, frame.uri, now)
    [] frame.route = "executions-loop" -> executionsLoopReply(reply, frame, now)
    [] frame.route = "flow-executions" ->
         flowExecutionsTemplate(reply, frame.flowId, frame.uri, now)
    [] frame.route = "flow" -> flowTemplate(reply, frame.flowId, frame.uri, now)

\* lines 578-587: catch (error) around the switch
innerCatch(step, uri, now) ==
  IF step.t = "throw"
    THEN createValidResponse(Null,
                             Concat(Str(<<"Error interno del servidor MCP: ">>),
                                    Get(step.e, "message")),
                             uri, now)
    ELSE step

\* the handler without its outermost catch: the exception reaches the transport
criticalCatchMissing(step, request, now) == step

\* lines 588-604: catch (criticalError) around the whole handler
criticalCatch(step, request, now) ==
  IF step.t = "throw"
    THEN LET text == JSONstringify(Obj([error |-> Str(<<"Error critico en el servidor MCP">>),
                                        message |-> Get(step.e, "message"),
                                        timestamp |-> Timestamp(now)]))
         IN  IF text.t = "throw" THEN text
             ELSE Return(Response(Or(Get(Get(request, "params"), "uri"),
                                     Str(<<"unknown">>)),
                                  text.v))
    ELSE step

\* lines 295-298: const { uri } = request.params throws when request.params
\* is undefined or null, outside the inner try
handlerStart(request, now) ==
  LET params == Get(request, "params")
  IN  IF IsNullish(params)
        THEN criticalCatch(Throw(TypeError("Cannot destructure property 'uri'")),
                           request, now)
        ELSE criticalCatch(innerCatch(switchUri(Get(params, "uri"), now),
                                      Get(params, "uri"), now),
                           request, now)

handlerResume(frame, reply, request, now) ==
  criticalCatch(innerCatch(resume(frame, reply, now), frame.uri, now), request, now)

(***************************************************************************)
(* The environment: the requests the transport delivers and the replies    *)
(* the backend gives.                                                      *)
(***************************************************************************)
\* a read request for uri; a request whose params carry no uri; a request
\* without params
ReadRequest(uri) == Obj([params |-> Obj([uri |-> uri])])
NoUriRequest == Obj([params |-> Obj(<<>>)])
NoParamsRequest == Obj(<<>>)

\* a path segment: empty, 'a', 'executions' or 'executionsa'
Segments == {<<>>, <<"a">>, <<"executions">>, <<"executions", "a">>}

\* '/' + segs[1] + '/' + segs[2] + ...
RECURSIVE Path(_)
Path(segs) ==
  IF segs = <<>> THEN <<>> ELSE <<"/">> \o Head(segs) \o Path(Tail(segs))

Tails == {Path(segs) : segs \in UNION {[1..n -> Segments] : n \in 0..MaxSegments}}

\* the requested URIs: 'hiveflow://flows' followed by every tail, the other
\* literals, and addresses outside the scheme or the grammar
Uris ==
  {FlowsUri \o tail : tail \in Tails}
    \cup {McpServersUri, ExecutionsUri, <<>>,
          <<"hiveflow:", "/", "/", "bogus">>,
          <<"hiveflow:", "/", "/", "flows", "a">>,
          <<"hiveflow:", "/", "/", "executions", "/", "a">>,
          <<"http:", "/", "/", "flows", "/", "a">>}

Requests ==
  {ReadRequest(Str(u)) : u \in Uris}
    \cup {ReadRequest(Null), ReadRequest(Num(7)), NoUriRequest, NoParamsRequest}

\* the errors axios throws
Refused ==
  Error(Str(<<"connect ECONNREFUSED 127.0.0.1:3001">>), Str(<<"ECONNREFUSED">>), Undefined)
TimedOut ==
  Error(Str(<<"timeout of 30000ms exceeded">>), Str(<<"ECONNABORTED">>), Undefined)
HttpError(status, data) ==
  Error(Str(<<"Request failed with status code">>), Str(<<"ERR_BAD_RESPONSE">>),
        Obj([status |-> Num(status), data |-> data]))
BackendMessage == Str(<<"mensaje del backend">>)

ApiErrors ==
  {Refused, TimedOut,
   HttpError(404, Obj([message |-> BackendMessage])),
   HttpError(404, Undefined),
   HttpError(500, Obj([message |-> BackendMessage])),
   HttpError(500, Str(<<"<html>">>))}

\* an HTTP 200 response with the parsed body as data
Ok(body) == Obj([status |-> Num(200), data |-> body])

\* bodies that do not say success: true
FailureBodies ==
  {Undefined, Str(<<"<html>">>),
   Obj([success |-> Bool(FALSE), message |-> BackendMessage]),
   Obj([success |-> Bool(FALSE)]),
   Obj([message |-> BackendMessage])}

\* body { success: true, <field>: payload }; an undefined payload is absent
SuccessBody(field, payload) ==
  Obj(IF payload = Undefined THEN [success |-> Bool(TRUE)]
      ELSE (field :> payload) @@ [success |-> Bool(TRUE)])

FlowIds == <<"f1", "f2", "f3", "f4", "f5", "f6", "f7", "f8", "f9">>
Flow(i) == Obj(("_id" :> Str(<<FlowIds[i]>>)) @@ [name |-> Str(<<"Flow ", FlowIds[i]>>)])
FlowList(n) == [i \in 1..n |-> Flow(i)]

Process(id, k) ==
  Obj([processId |-> Str(id \o <<"-p", k>>),
       status |-> Str(<<"completed">>),
       startTime |-> Timestamp(0)])
ProcessList(id) == <<Process(id, "1"), Process(id, "2")>>

\* payloads a createValidResponse cannot serialize, or that are no list
OddPayloads == {Undefined, Num(7), Cyclic, Func}

FlowsReplies ==
  {Throw(e) : e \in ApiErrors}
    \cup {Return(Ok(b)) : b \in FailureBodies}
    \cup {Return(Ok(SuccessBody("data", p))) :
            p \in OddPayloads
                    \cup {Arr(FlowList(n)) : n \in 0..MaxFlows}}

ServersReplies ==
  {Throw(e) : e \in ApiErrors}
    \cup {Return(Ok(b)) : b \in FailureBodies}
    \cup {Return(Ok(SuccessBody("servers", p))) :
            p \in OddPayloads
                    \cup {Arr(<<>>), Arr(<<Obj([name |-> Str(<<"server">>)])>>)}}

\* replies to the per-flow call of the executions literal (limit=10)
AggregateReplies(id) ==
  {Throw(Refused),
   Return(Ok(Obj([success |-> Bool(FALSE), message |-> BackendMessage]))),
   Return(Ok(SuccessBody("processes", Arr(ProcessList(id))))),
   Return(Ok(SuccessBody("processes", Undefined)))}
    \cup (IF id = <<FlowIds[2]>>
            THEN {Throw(HttpError(500, Obj([message |-> BackendMessage]))),
                  Return(Ok(SuccessBody("processes", Num(7))))}
            ELSE {})

\* replies to the call of the executions template (limit 20)
ProcessesReplies(id) ==
  {Throw(e) : e \in ApiErrors}
    \cup {Return(Ok(b)) : b \in FailureBodies}
    \cup {Return(Ok(SuccessBody("processes", p))) :
            p \in OddPayloads \cup {Arr(<<>>), Arr(ProcessList(id))}}

\* replies to GET /api/flows/<id>: the flow under data, under flow, or both
FlowReplies(id) ==
  {Throw(e) : e \in ApiErrors}
    \cup {Return(Ok(b)) : b \in FailureBodies}
    \cup {Return(Ok(Obj([success |-> Bool(TRUE)]))),
          Return(Ok(Obj([success |-> Bool(TRUE), data |-> Flow(1)]))),
          Return(Ok(Obj([success |-> Bool(TRUE), flow |-> Flow(2)]))),
          Return(Ok(Obj([success |-> Bool(TRUE), data |-> Null, flow |-> Flow(2)]))),
          Return(Ok(Obj([success |-> Bool(TRUE), data |-> Cyclic]))),
          Return(Ok(Obj([success |-> Bool(TRUE), flow |-> Func])))}

Replies(call) ==
  CASE call.endpoint = "flows" -> FlowsReplies
    [] call.endpoint = "mcp/servers" -> ServersReplies
    [] call.endpoint = "flow" -> FlowReplies(call.id)
    [] call.endpoint = "processes" /\ call.limit = AggregateLimit ->
         AggregateReplies(call.id)
    [] OTHER -> ProcessesReplies(call.id)

(***************************************************************************)
(* Startup: the command line is parsed and the action callback runs.       *)
(***************************************************************************)
ApiKey == Str(<<"key">>)
\* --api-key on the command line, or none
KeyFlags == {Undefined, ApiKey}
\* HIVEFLOW_API_KEY in the environment: unset, empty or set
KeyEnvs == {Undefined, Str(<<>>), ApiKey}

\* lines 801-804: an option takes its flag, and the environment as default
ParseOptions(flag, env) == [apiKey |-> IF flag # Undefined THEN flag ELSE env]

MissingKeyReport ==
  <<"Error: HIVEFLOW_API_KEY is required",
    "Set the environment variable or use --api-key flag">>

OsProcess(at, options, exitCode, stderr, server) ==
  [pc |-> at, options |-> options, exitCode |-> exitCode, stderr |-> stderr,
   server |-> server]

\* the action callback without the exit of line 809
programActionNoExit(options) ==
  OsProcess("connecting", options, Null,
          IF ~Truthy(options.apiKey) THEN MissingKeyReport ELSE <<>>,
          "constructed")

\* lines 805-819: the action callback up to the await of server.start()
programAction(options) ==
  IF ~Truthy(options.apiKey)
    THEN OsProcess("exited", options, Num(1), MissingKeyReport, "none")
    ELSE OsProcess("connecting", options, Null, <<>>, "constructed")

\* lines 789-793: server.connect(transport) completed
start(p) ==
  [p EXCEPT !.pc = "serving", !.server = "connected",
                  !.stderr = @ \o <<"HiveFlow MCP Server iniciado">>]

(***************************************************************************)
(* The state machine.  The process starts; once the server is connected,   *)
(* each slot is one invocation of the handler; the                         *)
(* second slot reads again what the first one reads.  The backend answers  *)
(* a call it has answered before with the same reply.                      *)
(***************************************************************************)
VARIABLES
  request,   \* slot -> the request delivered, or NoRequest
  pc,        \* slot -> "idle", "awaiting" (suspended at an await), "done"
  frame,     \* slot -> the locals of the suspended handler
  result,    \* slot -> what the handler returned (or threw), or NoResult
  calls,     \* slot -> the backend calls issued, in order
  answered,  \* slot -> how many of its calls have returned or failed
  replies,   \* call -> the reply the backend gave to it
  clock,     \* the time new Date() reads
  process    \* the operating-system process: where it is, its exit code,
             \* what it wrote to stderr, the MCP server it holds

vars == <<request, pc, frame, result, calls, answered, replies, clock, process>>

Slots == {1, 2}
NoRequest == [t |-> "none"]
NoResult == [t |-> "none"]

Init ==
  /\ request = [r \in Slots |-> NoRequest]
  /\ pc = [r \in Slots |-> "idle"]
  /\ frame = [r \in Slots |-> NoFrame]
  /\ result = [r \in Slots |-> NoResult]
  /\ calls = [r \in Slots |-> <<>>]
  /\ answered = [r \in Slots |-> 0]
  /\ replies = <<>>
  /\ clock = 1
  /\ process = OsProcess("parsing", [apiKey |-> Undefined], Null, <<>>, "none")

\* every lookup of the loop sent at once, none awaited before the next
IssuedTogether(step) ==
  IF step.frame.route = "executions-loop"
    THEN [i \in 1..(Len(step.frame.flows) - step.frame.idx + 1) |->
            Call("processes",
                 ToTokens(Get(step.frame.flows[step.frame.idx + i - 1], "_id")),
                 AggregateLimit)]
    ELSE <<step.call>>

\* the calls sent when the handler suspends: each `await
\* this.hiveflowClient.get(...)` (lines 412, 449, 468, 476, 516, 538) sends
\* one call and waits for it
Issued(step) == <<step.call>>

\* the locals of the handler kept in one place for all invocations
AdvanceSharedLocals(r, step) ==
  IF step.t = "await"
    THEN /\ pc' = [pc EXCEPT ![r] = "awaiting"]
         /\ frame' = [s \in Slots |-> step.frame]
         /\ calls' = [calls EXCEPT ![r] = @ \o Issued(step)]
         /\ result' = result
    ELSE /\ pc' = [pc EXCEPT ![r] = "done"]
         /\ frame' = [frame EXCEPT ![r] = NoFrame]
         /\ calls' = calls
         /\ result' = [result EXCEPT ![r] = step]

\* the handler ran up to `step`: an await, a return or a throw
Advance(r, step) ==
  IF step.t = "await"
    THEN /\ pc' = [pc EXCEPT ![r] = "awaiting"]
         /\ frame' = [frame EXCEPT ![r] = step.frame]
         /\ calls' = [calls EXCEPT ![r] = @ \o Issued(step)]
         /\ result' = result
    ELSE /\ pc' = [pc EXCEPT ![r] = "done"]
         /\ frame' = [frame EXCEPT ![r] = NoFrame]
         /\ calls' = calls
         /\ result' = [result EXCEPT ![r] = step]

\* program.parse() runs the action callback with the options of this start
ProgramAction ==
  /\ process.pc = "parsing"
  /\ \E flag \in KeyFlags, env \in KeyEnvs :
       process' = programAction(ParseOptions(flag, env))
  /\ UNCHANGED <<request, pc, frame, result, calls, answered, replies, clock>>

\* the transport is connected: the handlers now receive requests
ServerStart ==
  /\ process.pc = "connecting"
  /\ process' = start(process)
  /\ UNCHANGED <<request, pc, frame, result, calls, answered, replies, clock>>

\* the transport delivers a read request and the handler runs to its first
\* await or to its return
ReadResource(r) ==
  /\ process.pc = "serving"
  /\ pc[r] = "idle"
  /\ r = 1 \/ pc[1] # "idle"
  /\ \E req \in (IF r = 1 THEN Requests ELSE {request[1]}) :
       /\ request' = [request EXCEPT ![r] = req]
       /\ Advance(r, handlerStart(req, clock))
  /\ clock' = clock + 1
  /\ UNCHANGED <<replies, answered, process>>

\* the backend answers the call slot r awaits and the handler runs on
BackendReply(r) ==
  /\ pc[r] = "awaiting"
  /\ LET call == calls[r][Len(calls[r])]
     IN  \E reply \in (IF call \in DOMAIN replies THEN {replies[call]}
                       ELSE Replies(call)) :
           /\ replies' = IF call \in DOMAIN replies THEN replies
                         ELSE (call :> reply) @@ replies
           /\ Advance(r, handlerResume(frame[r], reply, request[r], clock))
  /\ answered' = [answered EXCEPT ![r] = @ + 1]
  /\ clock' = clock + 1
  /\ UNCHANGED <<request, process>>

Next ==
  \/ ProgramAction
  \/ ServerStart
  \/ \E r \in Slots : ReadResource(r)
  \/ \E r \in Slots : BackendReply(r)

Spec == Init /\ [][Next]_vars

\* the call slot r awaits returns or fails: what a step of BackendReply(r)
\* does to the count of answered calls
Replied(r) ==
  /\ pc[r] = "awaiting"
  /\ answered' = [answered EXCEPT ![r] = @ + 1]

\* every backend call eventually returns or fails (axios settles each call
\* with a response, an error, or the timeout of line 37), and the handler
\* that awaits it then runs on
FairSpec == Spec /\ \A r \in Slots : WF_answered(Replied(r))

(***************************************************************************)
(* Two requests in flight at the same time, each for an address of its     *)
(* own, against a backend with a few typical replies per call.             *)
(***************************************************************************)
ConcurrentUris ==
  {FlowsUri, McpServersUri, ExecutionsUri,
   FlowsPrefix \o <<"a">>, FlowsPrefix \o <<"a">> \o ExecutionsSuffix}

TypicalReplies(call) ==
  Replies(call) \cap
    {Throw(Refused),
     Throw(HttpError(404, Obj([message |-> BackendMessage]))),
     Return(Ok(Obj([success |-> Bool(FALSE), message |-> BackendMessage]))),
     Return(Ok(SuccessBody("data", Arr(FlowList(2))))),
     Return(Ok(SuccessBody("servers", Arr(<<Obj([name |-> Str(<<"server">>)])>>)))),
     Return(Ok(SuccessBody("processes", Arr(ProcessList(call.id))))),
     Return(Ok(Obj([success |-> Bool(TRUE), data |-> Flow(1)])))}

ReadResourceConcurrent(r) ==
  /\ process.pc = "serving"
  /\ pc[r] = "idle"
  /\ r = 1 \/ pc[1] # "idle"
  /\ \E u \in ConcurrentUris :
       /\ request' = [request EXCEPT ![r] = ReadRequest(Str(u))]
       /\ Advance(r, handlerStart(ReadRequest(Str(u)), clock))
  /\ clock' = clock + 1
  /\ UNCHANGED <<replies, answered, process>>

BackendReplyConcurrent(r) ==
  /\ pc[r] = "awaiting"
  /\ LET call == calls[r][Len(calls[r])]
     IN  \E reply \in (IF call \in DOMAIN replies THEN {replies[call]}
                       ELSE TypicalReplies(call)) :
           /\ replies' = IF call \in DOMAIN replies THEN replies
                         ELSE (call :> reply) @@ replies
           /\ Advance(r, handlerResume(frame[r], reply, request[r], clock))
  /\ answered' = [answered EXCEPT ![r] = @ + 1]
  /\ clock' = clock + 1
  /\ UNCHANGED <<request, process>>

NextConcurrent ==
  \/ ProgramAction
  \/ ServerStart
  \/ \E r \in Slots : ReadResourceConcurrent(r)
  \/ \E r \in Slots : BackendReplyConcurrent(r)

SpecConcurrent == Init /\ [][NextConcurrent]_vars


(***************************************************************************)
(* What the claims speak about.                                            *)
(***************************************************************************)
Done(r) == pc[r] = "done"
Started(r) == pc[r] # "idle"

\* the uri the request of slot r carries (undefined when it carries none)
RequestedUri(r) == Get(Get(request[r], "params"), "uri")

\* slot r returned a response whose first content holds JSON text
Returned(r) ==
  /\ Done(r)
  /\ result[r].t = "return"
  /\ Len(result[r].v.contents) >= 1
  /\ result[r].v.contents[1].text.t = "jsontext"

ContentOf(r) == result[r].v.contents[1]
\* the value the text of the response parses to
BodyOf(r) == ContentOf(r).text.j

\* a value of the JSON data model
RECURSIVE IsJsonValue(_)
IsJsonValue(v) ==
  CASE v.t \in {"null", "boolean", "number", "string", "timestamp"} -> TRUE
    [] v.t = "array" -> \A i \in 1..Len(v.xs) : IsJsonValue(v.xs[i])
    [] v.t = "object" -> \A k \in DOMAIN v.f : IsJsonValue(v.f[k])
    [] OTHER -> FALSE

HasField(body, field) == body.t = "object" /\ field \in DOMAIN body.f

\* the body is an error envelope
IsErrorBody(body) == HasField(body, "error")

\* an identifier: one non-empty path segment
IsIdentifier(id) == id # <<>> /\ \A i \in 1..Len(id) : id[i] # "/"

\* the declared templates hiveflow://flows/{flowId}/executions and
\* hiveflow://flows/{flowId}, matched segment by segment
MatchesFlowExecutions(u) ==
  /\ startsWith(u, FlowsPrefix)
  /\ Len(u) >= Len(FlowsPrefix) + Len(ExecutionsSuffix)
  /\ SubSeq(u, Len(u) - 1, Len(u)) = ExecutionsSuffix
  /\ IsIdentifier(SubSeq(u, Len(FlowsPrefix) + 1, Len(u) - 2))

MatchesFlow(u) ==
  /\ startsWith(u, FlowsPrefix)
  /\ IsIdentifier(SubSeq(u, Len(FlowsPrefix) + 1, Len(u)))

IsLiteral(u) == u \in {FlowsUri, McpServersUri, ExecutionsUri}

\* the identifier bound by a template the uri matches
IdOfFlowExecutions(u) == SubSeq(u, Len(FlowsPrefix) + 1, Len(u) - 2)

\* slot r reads the string uri u
Reads(r, u) == Started(r) /\ RequestedUri(r) = Str(u)

\* slot r reads a uri that is a string; its tokens
ReadsString(r) == Started(r) /\ RequestedUri(r).t = "string"
UriOf(r) == RequestedUri(r).s

\* the body of the not-found response for uri u
IsNotFoundBody(body, u) ==
  /\ HasField(body, "error") /\ HasField(body, "data")
  /\ body.f.error = Str(<<"Recurso no encontrado: ">> \o u)
  /\ body.f.data = ToJson(Catalog)

(***************************************************************************)
(* C1: whatever the request and whatever the backend replies, the handler  *)
(* returns a response and never throws, and the text of its content is a   *)
(* non-empty string that holds a valid JSON value.                         *)
(***************************************************************************)
C1_NeverThrowsValidBody ==
  \A r \in Slots :
    Done(r) =>
      /\ result[r].t = "return"
      /\ Len(result[r].v.contents) >= 1
      /\ IsString(result[r].v.contents[1].text)
      /\ ~IsEmptyString(result[r].v.contents[1].text)
      /\ result[r].v.contents[1].text.t = "jsontext"
      /\ IsJsonValue(result[r].v.contents[1].text.j)

\* the backend sent a flow list that cannot be serialized, and the read of
\* hiveflow://flows returned the serialization-failure envelope
C1_Witness ==
  /\ Reads(1, FlowsUri)
  /\ Returned(1)
  /\ replies[Call("flows", <<>>, 0)] = Return(Ok(SuccessBody("data", Cyclic)))
  /\ IsErrorBody(BodyOf(1))
  /\ BodyOf(1).f.error.s[1] = "Error al serializar datos: "

(***************************************************************************)
(* C2: every response holds exactly one content item, of media type        *)
(* application/json, whose uri is the requested URI, or 'unknown' when the *)
(* request carries no URI.                                                 *)
(***************************************************************************)
C2_OneContentWithRequestedUri ==
  \A r \in Slots :
    (Done(r) /\ result[r].t = "return") =>
      /\ Len(result[r].v.contents) = 1
      /\ result[r].v.contents[1].mimeType = "application/json"
      /\ result[r].v.contents[1].uri =
           (IF RequestedUri(r) = Undefined THEN Str(<<"unknown">>)
            ELSE RequestedUri(r))

(***************************************************************************)
(* C3: hiveflow://flows/<id>/executions, for a non-empty identifier id, is *)
(* resolved by the executions template (one child-listing call for id) and *)
(* never by the single-flow template; each literal address is resolved by  *)
(* its own branch.                                                         *)
(***************************************************************************)
C3_ExecutionsTemplateFirst ==
  \A r \in Slots :
    /\ (ReadsString(r) /\ MatchesFlowExecutions(UriOf(r))) =>
         /\ calls[r] = <<Call("processes", IdOfFlowExecutions(UriOf(r)), TemplateLimit)>>
         /\ pc[r] = "awaiting" => frame[r].route = "flow-executions"
    /\ Reads(r, FlowsUri) =>
         /\ calls[r] = <<Call("flows", <<>>, 0)>>
         /\ pc[r] = "awaiting" => frame[r].route = "flows"
    /\ Reads(r, McpServersUri) =>
         /\ calls[r] = <<Call("mcp/servers", <<>>, 0)>>
         /\ pc[r] = "awaiting" => frame[r].route = "mcp-servers"
    /\ Reads(r, ExecutionsUri) =>
         /\ calls[r][1] = Call("flows", <<>>, 0)
         /\ \A i \in 2..Len(calls[r]) :
              calls[r][i].endpoint = "processes" /\ calls[r][i].limit = AggregateLimit
         /\ pc[r] = "awaiting" => frame[r].route \in {"executions", "executions-loop"}

\* a read of hiveflow://flows/a/executions completed
C3_Witness ==
  /\ Reads(1, FlowsPrefix \o <<"a">> \o ExecutionsSuffix)
  /\ Returned(1)
  /\ calls[1] = <<Call("processes", <<"a">>, TemplateLimit)>>

(***************************************************************************)
(* C4: a URI whose identifier part is empty (hiveflow://flows//executions) *)
(* or that has no identifier before 'executions'                           *)
(* (hiveflow://flows/executions) issues no child-listing call and is       *)
(* resolved by the single-flow template.                                   *)
(***************************************************************************)
C4_EmptyIdentifierFallsThrough ==
  \A r \in Slots :
    \A u \in {FlowsPrefix \o ExecutionsSuffix, FlowsUri \o ExecutionsSuffix} :
      Reads(r, u) =>
        calls[r] = <<Call("flow", replace(u, FlowsPrefix, <<>>), 0)>>

(***************************************************************************)
(* C5: a URI under hiveflow://flows/ that matches neither template segment *)
(* by segment triggers no backend call and gets the not-found response.    *)
(***************************************************************************)
C5_SegmentwiseTemplates ==
  \A r \in Slots :
    (ReadsString(r) /\ startsWith(UriOf(r), FlowsPrefix)
       /\ ~MatchesFlowExecutions(UriOf(r)) /\ ~MatchesFlow(UriOf(r))) =>
      /\ calls[r] = <<>>
      /\ Returned(r)
      /\ IsNotFoundBody(BodyOf(r), UriOf(r))

(***************************************************************************)
(* C6: a URI that matches no literal address and no template gets a        *)
(* response whose body names exactly that URI in its error message and     *)
(* lists the three literal addresses and the two templates.                *)
(***************************************************************************)
C6_NotFoundCatalog ==
  \A r \in Slots :
    (ReadsString(r) /\ Done(r) /\ ~IsLiteral(UriOf(r))
       /\ ~MatchesFlowExecutions(UriOf(r)) /\ ~MatchesFlow(UriOf(r))) =>
      /\ Returned(r)
      /\ IsNotFoundBody(BodyOf(r), UriOf(r))

(***************************************************************************)
(* C7: on each literal address and each template, when the backend refuses *)
(* the connection of the calls of the resolution, the body is an error     *)
(* envelope whose error field contains the base URL.                       *)
(***************************************************************************)
AllCallsRefused(r) ==
  /\ calls[r] # <<>>
  /\ \A i \in 1..Len(calls[r]) :
       calls[r][i] \in DOMAIN replies /\ replies[calls[r][i]] = Throw(Refused)

C7_RefusedNamesBaseUrl ==
  \A r \in Slots :
    (ReadsString(r) /\ Done(r) /\ AllCallsRefused(r)
       /\ (\/ IsLiteral(UriOf(r))
           \/ MatchesFlowExecutions(UriOf(r))
           \/ MatchesFlow(UriOf(r)))) =>
      /\ Returned(r)
      /\ IsErrorBody(BodyOf(r))
      /\ BodyOf(r).f.error.t = "string"
      /\ includes(BodyOf(r).f.error.s, baseURL.s)

\* the backend refused the call of hiveflow://flows/a/executions
C7_Witness ==
  /\ Reads(1, FlowsPrefix \o <<"a">> \o ExecutionsSuffix)
  /\ Returned(1)
  /\ AllCallsRefused(1)

(***************************************************************************)
(* C8: in the read of hiveflow://executions, whichever child lookups fail, *)
(* the response is a success body holding exactly the children of the      *)
(* parents whose lookup did not fail, in order, without any record of a    *)
(* failing parent, and every parent of the first five is looked up.        *)
(***************************************************************************)
FlowsCall == Call("flows", <<>>, 0)
ChildCall(flow) == Call("processes", ToTokens(Get(flow, "_id")), AggregateLimit)

\* the flow list arrived with success: true and a list under data
FlowListArrived ==
  /\ FlowsCall \in DOMAIN replies
  /\ replies[FlowsCall].t = "return"
  /\ IsSuccess(replies[FlowsCall].v)
  /\ Or(Get(Get(replies[FlowsCall].v, "data"), "data"), Arr(<<>>)).t = "array"

\* the parents the read looks up: the first five of the list
Parents == slice(Or(Get(Get(replies[FlowsCall].v, "data"), "data"), Arr(<<>>)).xs,
                 MaxAggregatedFlows)

LookupFailed(flow) == replies[ChildCall(flow)].t = "throw"

\* the children the backend listed for a parent, tagged with the parent
ChildrenOf(flow) ==
  LET reply == replies[ChildCall(flow)]
      processes == Get(Get(reply.v, "data"), "processes")
  IN  IF reply.t = "return" /\ IsSuccess(reply.v) /\ processes.t = "array"
        THEN [k \in 1..Len(processes.xs) |-> FlatExecution(flow, processes.xs[k])]
        ELSE <<>>

RECURSIVE ChildrenOfAll(_)
ChildrenOfAll(flows) ==
  IF flows = <<>> THEN <<>>
  ELSE ChildrenOf(Head(flows)) \o ChildrenOfAll(Tail(flows))

C8_PartialAggregate ==
  \A r \in Slots :
    (Reads(r, ExecutionsUri) /\ Done(r) /\ FlowListArrived) =>
      /\ calls[r] = <<FlowsCall>> \o [i \in 1..Len(Parents) |-> ChildCall(Parents[i])]
      /\ Returned(r)
      /\ BodyOf(r).t = "array"
      /\ BodyOf(r) = ToJson(Arr(ChildrenOfAll(Parents)))
      /\ \A i \in 1..Len(Parents) :
           LookupFailed(Parents[i]) =>
             \A k \in 1..Len(BodyOf(r).xs) :
               BodyOf(r).xs[k].f.flowId # Get(Parents[i], "_id")

\* three parents, the lookup of the second failed, and the body holds the
\* two children of the first and the two of the third
C8_Witness ==
  /\ Reads(1, ExecutionsUri) /\ Returned(1) /\ FlowListArrived
  /\ Len(Parents) = 3
  /\ ~LookupFailed(Parents[1]) /\ LookupFailed(Parents[2]) /\ ~LookupFailed(Parents[3])
  /\ BodyOf(1).t = "array"
  /\ Len(BodyOf(1).xs) = 4
  /\ BodyOf(1).xs[1].f.flowId = Get(Parents[1], "_id")
  /\ BodyOf(1).xs[3].f.flowId = Get(Parents[3], "_id")

(***************************************************************************)
(* C9: two resolutions of the same request, against a backend that gives   *)
(* the same replies to the same calls, return responses that agree in uri, *)
(* media type and body, the timestamp field of the body apart.             *)
(***************************************************************************)
\* the text without the timestamp field of its body
WithoutTimestamp(text) ==
  IF text.t = "jsontext" /\ text.j.t = "object"
    THEN JsonText(Obj([k \in DOMAIN text.j.f \ {"timestamp"} |-> text.j.f[k]]))
    ELSE text

C9_Idempotent ==
  \A r1, r2 \in Slots :
    (Done(r1) /\ Done(r2) /\ request[r1] = request[r2]) =>
      /\ result[r1].t = result[r2].t
      /\ result[r1].t = "return" =>
           /\ Len(result[r1].v.contents) = Len(result[r2].v.contents)
           /\ \A i \in 1..Len(result[r1].v.contents) :
                /\ result[r1].v.contents[i].uri = result[r2].v.contents[i].uri
                /\ result[r1].v.contents[i].mimeType = result[r2].v.contents[i].mimeType
                /\ WithoutTimestamp(result[r1].v.contents[i].text)
                     = WithoutTimestamp(result[r2].v.contents[i].text)

\* both resolutions returned an error envelope, at different times
C9_Witness ==
  /\ Returned(1) /\ Returned(2)
  /\ request[1] = request[2]
  /\ IsErrorBody(BodyOf(1))
  /\ BodyOf(1).f.timestamp # BodyOf(2).f.timestamp

(***************************************************************************)
(* C10: every failure response has a body with the three fields error (a   *)
(* string), uri and timestamp.                                             *)
(***************************************************************************)
C10_FailureBodyFields ==
  \A r \in Slots :
    (Returned(r) /\ IsErrorBody(BodyOf(r))) =>
      /\ BodyOf(r).f.error.t = "string"
      /\ HasField(BodyOf(r), "uri")
      /\ HasField(BodyOf(r), "timestamp")

(***************************************************************************)
(* The backend-error paths: the one call of a read (for the aggregate, its *)
(* listing of the parents) threw, or its reply does not say success: true. *)
(***************************************************************************)
FirstCall(r) == calls[r][1]
FirstReply(r) == replies[calls[r][1]]

SaysSuccess(reply) ==
  reply.t = "return" /\ Get(Get(reply.v, "data"), "success") = Bool(TRUE)

BackendThrew(r) ==
  /\ Done(r) /\ Len(calls[r]) = 1
  /\ FirstCall(r) \in DOMAIN replies
  /\ FirstReply(r).t = "throw"

BackendSaidFailure(r) ==
  /\ Done(r) /\ Len(calls[r]) = 1
  /\ FirstCall(r) \in DOMAIN replies
  /\ FirstReply(r).t = "return"
  /\ ~SaysSuccess(FirstReply(r))

BackendFailed(r) == BackendThrew(r) \/ BackendSaidFailure(r)

EnvelopeFields == {"error", "uri", "timestamp", "data"}

IsInternalErrorBody(body) ==
  /\ IsErrorBody(body)
  /\ body.f.error.t = "string"
  /\ startsWith(body.f.error.s, <<"Error interno del servidor MCP: ">>)

EnvelopeMessage(apiError) == Get(Get(Get(apiError, "response"), "data"), "message")
StatusOf(apiError) == Get(Get(apiError, "response"), "status")
GenericMessage == Str(<<"Error de conexion con el backend">>)

C12_ThreeCaseMessage ==
  \A r \in Slots :
    (/\ BackendThrew(r)
     /\ ~(FirstCall(r).endpoint = "flow" /\ StatusOf(FirstReply(r).e) = Num(404))) =>
      /\ Returned(r)
      /\ IsErrorBody(BodyOf(r))
      /\ BodyOf(r).f.error.t = "string"
      /\ LET e == FirstReply(r).e
             message == BodyOf(r).f.error
         IN  IF IsRefused(e) THEN includes(message.s, baseURL.s)
             ELSE IF EnvelopeMessage(e).t = "string" THEN message = EnvelopeMessage(e)
             ELSE message = GenericMessage

(***************************************************************************)
(* C13: on hiveflow://flows/<id> a thrown backend error with status 404,   *)
(* the connection not refused, yields the message naming id, also when the *)
(* backend's envelope carries a message of its own; on no other address    *)
(* does a 404 yield a message naming an identifier.                        *)
(***************************************************************************)
IdOfFlow(u) == SubSeq(u, Len(FlowsPrefix) + 1, Len(u))
NotFoundMessage(id) == Str(<<"Flujo con ID ">> \o id \o <<" no encontrado">>)

\* the call of slot r threw an error with status 404, not a refusal
Threw404(r) ==
  /\ BackendThrew(r)
  /\ ~IsRefused(FirstReply(r).e)
  /\ StatusOf(FirstReply(r).e) = Num(404)

C13_NotFoundNamesId ==
  \A r \in Slots :
    (ReadsString(r) /\ Threw404(r)) =>
      /\ Returned(r)
      /\ IsErrorBody(BodyOf(r))
      /\ BodyOf(r).f.error.t = "string"
      /\ IF MatchesFlow(UriOf(r))
           THEN BodyOf(r).f.error = NotFoundMessage(IdOfFlow(UriOf(r)))
           ELSE ~startsWith(BodyOf(r).f.error.s, <<"Flujo con ID ">>)

(***************************************************************************)
(* C14: on every literal and template, a backend reply that does not say   *)
(* success: true yields an error envelope, never a success body; its       *)
(* message differs from every message of a transport failure and contains  *)
(* the backend's own message when the reply has one.                       *)
(***************************************************************************)
\* the messages the catch blocks give to thrown errors
TransportMessages(call) ==
  UNION {{flowsErrorMessage(e), plainErrorMessage(e), flowErrorMessage(e, call.id)} :
           e \in ApiErrors}

\* the message field of the body of a reply
BodyMessage(reply) == Get(Get(reply.v, "data"), "message")

StartedWithoutKey ==
  /\ process.pc # "parsing"
  /\ process.options.apiKey \in {Undefined, Str(<<>>)}

C15_NoKeyExits ==
  StartedWithoutKey =>
    /\ process.pc = "exited"
    /\ process.exitCode.t = "number"
    /\ process.exitCode # Num(0)
    /\ process.stderr = MissingKeyReport
    /\ process.server = "none"
    /\ \A r \in Slots : pc[r] = "idle"

\* the environment held an empty key and the command line none
C15_Witness ==
  /\ process.pc = "exited"
  /\ process.options.apiKey = Str(<<>>)

(***************************************************************************)
(* C16: the read of hiveflow://executions issues child-listing calls only  *)
(* for the first five parents of the list, in list order, one per parent:  *)
(* for a list of n parents exactly min(n, 5) child calls, and no parent     *)
(* beyond the fifth is queried or appears in the aggregate.                *)
(***************************************************************************)
\* the list of parents the backend returned
ListedFlows == Or(Get(Get(replies[FlowsCall].v, "data"), "data"), Arr(<<>>)).xs

Min(a, b) == IF a < b THEN a ELSE b

\* the calls a slot issued after its first one
ChildCallsOf(r) == SubSeq(calls[r], 2, Len(calls[r]))

C16_FirstFiveParents ==
  \A r \in Slots :
    (Reads(r, ExecutionsUri) /\ FlowListArrived) =>
      LET first == Min(Len(ListedFlows), 5)
      IN  /\ Len(ChildCallsOf(r)) <= first
          /\ \A i \in 1..Len(ChildCallsOf(r)) :
               ChildCallsOf(r)[i] = ChildCall(ListedFlows[i])
          /\ Done(r) =>
               /\ Len(ChildCallsOf(r)) = first
               /\ Returned(r)
               /\ BodyOf(r).t = "array"
               /\ \A k \in 1..Len(BodyOf(r).xs) :
                    /\ HasField(BodyOf(r).xs[k], "flowId")
                    /\ \E i \in 1..first :
                         BodyOf(r).xs[k].f.flowId = Get(ListedFlows[i], "_id")

\* six parents listed, five looked up, children in the aggregate
C16_Witness ==
  /\ Reads(1, ExecutionsUri)
  /\ FlowListArrived
  /\ Len(ListedFlows) = 6
  /\ Returned(1)
  /\ Len(calls[1]) = 6
  /\ BodyOf(1).t = "array"
  /\ BodyOf(1).xs # <<>>

(***************************************************************************)
(* C17: within one resolution at most one backend call is outstanding at   *)
(* any time: a call is issued only after every earlier call of the         *)
(* resolution has returned or failed, and the child calls of the aggregate *)
(* are issued in the order of the parent list.                             *)
(***************************************************************************)
Outstanding(r) == Len(calls[r]) - answered[r]

C17_OneCallOutstanding ==
  \A r \in Slots :
    /\ Outstanding(r) \in {0, 1}
    /\ Outstanding(r) = 1 <=> pc[r] = "awaiting"
    /\ (Reads(r, ExecutionsUri) /\ FlowListArrived) =>
         \A k \in 1..Len(ChildCallsOf(r)) :
           /\ ChildCallsOf(r)[k] = ChildCall(ListedFlows[k])
           /\ answered[r] >= k

\* the third child call is outstanding, the two before it are answered
C17_Witness ==
  /\ Reads(1, ExecutionsUri)
  /\ FlowListArrived
  /\ pc[1] = "awaiting"
  /\ Len(calls[1]) = 4
  /\ answered[1] = 3

(***************************************************************************)
(* C18: a resolution never repeats a backend call.  The read of            *)
(* hiveflow://flows/<id>/executions issues exactly one child-listing call  *)
(* for id, the read of hiveflow://flows/<id> exactly one fetch of the      *)
(* single flow id, the reads of hiveflow://flows and hiveflow://mcp-servers *)
(* exactly one listing call each, whether the call succeeds or fails.      *)
(***************************************************************************)
\* the one call the address of u stands for
CallOf(u) ==
  IF u = FlowsUri THEN Call("flows", <<>>, 0)
  ELSE IF u = McpServersUri THEN Call("mcp/servers", <<>>, 0)
  ELSE IF MatchesFlowExecutions(u) THEN Call("processes", IdOfFlowExecutions(u), 20)
  ELSE Call("flow", IdOfFlow(u), 0)

C18_ExactlyOneCall ==
  \A r \in Slots :
    (/\ ReadsString(r)
     /\ \/ UriOf(r) \in {FlowsUri, McpServersUri}
        \/ MatchesFlowExecutions(UriOf(r))
        \/ MatchesFlow(UriOf(r))) =>
      /\ calls[r] = <<CallOf(UriOf(r))>>
      /\ Done(r) => answered[r] = 1

(***************************************************************************)
(* C19: two reads in flight at the same time are independent: however      *)
(* their steps interleave, each returns the response it would return when  *)
(* run alone against the same backend replies (the time of an error body   *)
(* apart), with its own URI.                                               *)
(***************************************************************************)
\* the handler run from `step` to its end with nothing else in between,
\* every call answered as the backend answered it
RECURSIVE RunAlone(_, _)
RunAlone(step, req) ==
  IF step.t = "await" /\ step.call \in DOMAIN replies
    THEN RunAlone(handlerResume(step.frame, replies[step.call], req, 0), req)
    ELSE step

Alone(req) == RunAlone(handlerStart(req, 0), req)

C19_IndependentReads ==
  \A r \in Slots :
    Done(r) =>
      /\ result[r].t = "return"
      /\ Alone(request[r]).t = "return"
      /\ Len(result[r].v.contents) = 1
      /\ Len(Alone(request[r]).v.contents) = 1
      /\ result[r].v.contents[1].uri = RequestedUri(r)
      /\ result[r].v.contents[1].uri = Alone(request[r]).v.contents[1].uri
      /\ WithoutTimestamp(result[r].v.contents[1].text)
           = WithoutTimestamp(Alone(request[r]).v.contents[1].text)

\* a read of another address completed while the aggregate read was
\* suspended in its loop, and then the aggregate read completed
C19_Witness ==
  /\ Reads(1, ExecutionsUri)
  /\ Returned(1)
  /\ Len(calls[1]) = 3
  /\ Reads(2, FlowsPrefix \o <<"a">>)
  /\ Returned(2)
  /\ BodyOf(1).t = "array" /\ BodyOf(1).xs # <<>>
  /\ IsErrorBody(BodyOf(2))
  /\ BodyOf(2).f.timestamp.t = "timestamp"
  /\ BodyOf(2).f.timestamp.at = 5

(***************************************************************************)
(* C20: provided every backend call eventually returns or fails, every     *)
(* read request eventually completes with exactly one response, which it   *)
(* keeps, after at most 6 backend calls, and after at most 1 call on every *)
(* address other than hiveflow://executions.                               *)
(***************************************************************************)
C20_EveryRequestCompletes ==
  /\ \A r \in Slots : Started(r) ~> Done(r)
  /\ [](\A r \in Slots :
          /\ Len(calls[r]) <= 6
          /\ (Started(r) /\ RequestedUri(r) # Str(ExecutionsUri)) => Len(calls[r]) <= 1
          /\ Done(r) <=> result[r] # NoResult)
  /\ [][\A r \in Slots : Done(r) => (Done(r)' /\ result'[r] = result[r])]_vars

\* the aggregate read completed after its sixth call
C20_Witness ==
  /\ Reads(1, ExecutionsUri)
  /\ Returned(1)
  /\ Len(calls[1]) = 6
  /\ answered[1] = 6

(***************************************************************************)
(* C21: createValidResponse is total.  When the payload cannot be          *)
(* serialized, no exception leaves it and the body is the envelope         *)
(* {error naming the cause, uri, timestamp}; when the serialized text is   *)
(* not a non-empty string, the body is the fixed fallback envelope.        *)
(***************************************************************************)
\* the payload of a successful reply that the branch of the call hands to
\* createValidResponse
PayloadOf(call, reply) ==
  LET body == Get(reply.v, "data")
  IN  CASE call.endpoint = "flows" -> Get(body, "data")
        [] call.endpoint = "mcp/servers" -> Get(body, "servers")
        [] call.endpoint = "processes" -> Get(body, "processes")
        [] OTHER -> Or(Get(body, "data"), Get(body, "flow"))

\* the one call of slot r succeeded and its payload went to the normalizer
Normalized(r) ==
  /\ Done(r) /\ Len(calls[r]) = 1
  /\ FirstCall(r) \in DOMAIN replies
  /\ SaysSuccess(FirstReply(r))
  /\ ReadsString(r) /\ UriOf(r) # ExecutionsUri

C21_NormalizerTotal ==
  \A r \in Slots :
    Normalized(r) =>
      LET payload == PayloadOf(FirstCall(r), FirstReply(r))
      IN  /\ result[r].t = "return"
          /\ Returned(r)
          /\ HasCycle(payload) =>
               /\ BodyOf(r).t = "object"
               /\ DOMAIN BodyOf(r).f = {"error", "uri", "timestamp"}
               /\ BodyOf(r).f.error =
                    Str(<<"Error al serializar datos: ",
                          "Converting circular structure to JSON">>)
               /\ BodyOf(r).f.uri = RequestedUri(r)
               /\ BodyOf(r).f.timestamp.t = "timestamp"
          /\ payload = Func =>
               /\ BodyOf(r).t = "object"
               /\ DOMAIN BodyOf(r).f = {"error", "uri", "timestamp"}
               /\ BodyOf(r).f.error = Str(<<"Respuesta vacia">>)
               /\ BodyOf(r).f.uri = RequestedUri(r)
               /\ BodyOf(r).f.timestamp.t = "timestamp"

\* JSON.stringify returned undefined for the servers the backend sent, and
\* the read returned the fallback envelope
C21_Witness ==
  /\ Reads(1, McpServersUri)
  /\ Normalized(1)
  /\ PayloadOf(FirstCall(1), FirstReply(1)) = Func
  /\ Returned(1)
  /\ IsErrorBody(BodyOf(1))

(***************************************************************************)
(* C22: the aggregate of hiveflow://executions is a sequence with exactly  *)
(* one flattened record per child item of every successful child lookup,   *)
(* each record tagged with the identifier and the name of its parent; the  *)
(* records are grouped by parent in the order of the parent list and,      *)
(* within a parent, in the order the backend returned them.                *)
(***************************************************************************)
\* the child items the backend returned for a parent, none when the lookup
\* failed
ChildItems(flow) ==
  LET reply == replies[ChildCall(flow)]
  IN  IF SaysSuccess(reply) /\ Get(Get(reply.v, "data"), "processes").t = "array"
        THEN Get(Get(reply.v, "data"), "processes").xs
        ELSE <<>>

\* how many records the parents before parent i account for
RECURSIVE RecordsBefore(_)
RecordsBefore(i) ==
  IF i <= 1 THEN 0
  ELSE RecordsBefore(i - 1) + Len(ChildItems(ListedFlows[i - 1]))

C22_AggregateOrder ==
  \A r \in Slots :
    (Reads(r, ExecutionsUri) /\ Done(r) /\ FlowListArrived) =>
      LET first == Min(Len(ListedFlows), 5)
      IN  /\ Returned(r)
          /\ BodyOf(r).t = "array"
          /\ Len(BodyOf(r).xs) = RecordsBefore(first + 1)
          /\ \A i \in 1..first :
               \A k \in 1..Len(ChildItems(ListedFlows[i])) :
                 LET record == BodyOf(r).xs[RecordsBefore(i) + k]
                     item == ChildItems(ListedFlows[i])[k]
                 IN  /\ Get(record, "flowId") = Get(ListedFlows[i], "_id")
                     /\ Get(record, "flowName") = Get(ListedFlows[i], "name")
                     /\ Get(record, "processId") = Get(item, "processId")
                     /\ Get(record, "status") = Get(item, "status")

\* three parents: the lookup of the second failed, the first and the third
\* returned two children each
C22_Witness ==
  /\ Reads(1, ExecutionsUri)
  /\ Done(1)
  /\ FlowListArrived
  /\ Len(ListedFlows) = 3
  /\ Len(ChildItems(ListedFlows[1])) = 2
  /\ replies[ChildCall(ListedFlows[2])].t = "throw"
  /\ Len(ChildItems(ListedFlows[3])) = 2
  /\ Returned(1)
  /\ BodyOf(1).t = "array"
  /\ Len(BodyOf(1).xs) = 4

(***************************************************************************)
(* C23: the read of a URI that matches no literal address and no template  *)
(* issues no backend call at all: it completes without suspending, and its *)
(* not-found response holds static data only.                              *)
(***************************************************************************)
MatchesNothing(u) ==
  /\ ~IsLiteral(u)
  /\ ~MatchesFlowExecutions(u)
  /\ ~MatchesFlow(u)

C23_NoCallOnNoMatch ==
  \A r \in Slots :
    (ReadsString(r) /\ MatchesNothing(UriOf(r))) =>
      /\ calls[r] = <<>>
      /\ answered[r] = 0
      /\ pc[r] = "done"
      /\ Returned(r)
      /\ HasField(BodyOf(r), "data")
      /\ BodyOf(r).f.data = ToJson(Catalog)

(***************************************************************************)
(* C24: in the read of hiveflow://executions, when the listing of the      *)
(* parents throws or returns without success: true, no child-listing call  *)
(* is issued and the response is an error envelope; child-listing calls    *)
(* are issued only after a successful listing of the parents.              *)
(***************************************************************************)
C24_ChildrenAfterListing ==
  \A r \in Slots :
    Reads(r, ExecutionsUri) =>
      /\ Len(calls[r]) >= 1
      /\ calls[r][1] = FlowsCall
      /\ Len(calls[r]) >= 2 =>
           /\ FlowsCall \in DOMAIN replies
           /\ SaysSuccess(replies[FlowsCall])
      /\ (answered[r] >= 1 /\ ~SaysSuccess(replies[FlowsCall])) =>
           /\ calls[r] = <<FlowsCall>>
           /\ Returned(r)
           /\ IsErrorBody(BodyOf(r))

\* the listing of the parents answered success: false
C24_Witness ==
  /\ Reads(1, ExecutionsUri)
  /\ answered[1] = 1
  /\ replies[FlowsCall] =
       Return(Ok(Obj([success |-> Bool(FALSE), message |-> BackendMessage])))
  /\ Returned(1)
  /\ IsErrorBody(BodyOf(1))

(***************************************************************************)
(* The tool-invocation handler (CallToolRequestSchema, lines 209-246) and  *)
(* the nine tool methods (lines 608-787), each up to its backend call and  *)
(* from the point where that call completes.                               *)
(***************************************************************************)
\* `${v}` inside a template literal
Interpolate(v) ==
  CASE v.t = "string" -> v.s
    [] v.t = "undefined" -> <<"undefined">>
    [] v.t = "null" -> <<"null">>
    [] v.t = "number" -> <<ToString(v.n)>>
    [] OTHER -> <<"[object Object]">>

\* { content: [{ type: 'text', text }] }, and the same with isError: true
ToolResult(text) == [content |-> <<[type |-> "text", text |-> Str(text)]>>]
ToolError(text) ==
  [content |-> <<[type |-> "text", text |-> Str(text)]>>, isError |-> TRUE]

ToolFrame(name, args) == [route |-> name, args |-> args]

\* reading a property of undefined or null
CannotRead(field) ==
  Throw(TypeError("Cannot read properties of undefined (reading '" \o field \o "')"))

ToolNames ==
  {"create_flow", "list_flows", "get_flow", "execute_flow", "pause_flow",
   "resume_flow", "list_mcp_servers", "create_mcp_server", "get_flow_executions"}

\* lines 213-233: the switch, each tool method run up to its await; a
\* method that reads a property of args throws when args is undefined
switchName(name, args) ==
  IF name \notin {Str(<<n>>) : n \in ToolNames}
    THEN Throw(Error(Str(<<"Herramienta desconocida: ">> \o Interpolate(name)),
                     Undefined, Undefined))
  ELSE IF name = Str(<<"list_mcp_servers">>)
    THEN Await(Call("GET /api/mcp/servers", <<>>, 0), ToolFrame(name, args))
  ELSE IF name = Str(<<"get_flow_executions">>)
    THEN IF IsNullish(args)
           THEN Return(ToolResult(<<"Error de conexion: ">>
                                    \o CannotRead("flowId").e.f.message.s))
           ELSE Await(Call("GET /api/flows/<id>/processes",
                           Interpolate(Get(args, "flowId")),
                           IF Truthy(Get(args, "limit")) THEN Get(args, "limit").n
                           ELSE 10),
                      ToolFrame(name, args))
  ELSE IF IsNullish(args)
    THEN CannotRead(CASE name = Str(<<"create_flow">>) -> "name"
                      [] name = Str(<<"list_flows">>) -> "status"
                      [] name = Str(<<"create_mcp_server">>) -> "name"
                      [] OTHER -> "flowId")
  ELSE CASE name = Str(<<"create_flow">>) ->
              Await(Call("POST /api/flows", Interpolate(Get(args, "name")), 0),
                    ToolFrame(name, args))
         [] name = Str(<<"list_flows">>) ->
              Await(Call("GET /api/flows", <<>>,
                         IF Truthy(Get(args, "limit")) THEN Get(args, "limit").n ELSE 0),
                    ToolFrame(name, args))
         [] name = Str(<<"get_flow">>) ->
              Await(Call("GET /api/flows/<id>", Interpolate(Get(args, "flowId")), 0),
                    ToolFrame(name, args))
         [] name = Str(<<"execute_flow">>) ->
              Await(Call("POST /api/flows/<id>/execute",
                         Interpolate(Get(args, "flowId")), 0),
                    ToolFrame(name, args))
         [] name = Str(<<"pause_flow">>) ->
              Await(Call("POST /api/flows/<id>/pause",
                         Interpolate(Get(args, "flowId")), 0),
                    ToolFrame(name, args))
         [] name = Str(<<"resume_flow">>) ->
              Await(Call("POST /api/flows/<id>/resume",
                         Interpolate(Get(args, "flowId")), 0),
                    ToolFrame(name, args))
         [] name = Str(<<"create_mcp_server">>) ->
              Await(Call("POST /api/mcp/servers", Interpolate(Get(args, "name")), 0),
                    ToolFrame(name, args))

\* the names of a list's items, one line each (map and join)
RECURSIVE Lines(_)
Lines(items) ==
  IF items = <<>> THEN <<>>
  ELSE <<"* ">> \o Interpolate(Get(Head(items), "name")) \o Lines(Tail(items))

\* lines 609-627
createFlow(args, response) ==
  LET data == Get(response, "data")
  IN  IF IsNullish(data) THEN CannotRead("data")
      ELSE IF IsNullish(Get(data, "data")) THEN CannotRead("_id")
      ELSE Return(ToolResult(<<"Flujo ">> \o Interpolate(Get(args, "name"))
                               \o <<" creado exitosamente. ID: ">>
                               \o Interpolate(Get(Get(data, "data"), "_id"))
                               \o <<" Estado: ">>
                               \o Interpolate(Get(Get(data, "data"), "status"))))

\* lines 630-650
listFlows(args, response) ==
  LET data == Get(response, "data")
  IN  IF IsNullish(data) THEN CannotRead("data")
      ELSE LET flows == Or(Get(data, "data"), Arr(<<>>))
           IN  IF flows.t # "array"
                 THEN Throw(TypeError("flows.map is not a function"))
                 ELSE Return(ToolResult(
                        <<"Flujos encontrados (", ToString(Len(flows.xs)), "): ">>
                          \o (IF flows.xs = <<>> THEN <<"No hay flujos disponibles">>
                              ELSE Lines(flows.xs))))

\* lines 652-664
getFlow(args, response) ==
  LET data == Get(response, "data")
  IN  IF IsNullish(data) THEN CannotRead("flow")
      ELSE IF IsNullish(Get(data, "flow")) THEN CannotRead("name")
      ELSE Return(ToolResult(<<"Detalles del flujo ">>
                               \o Interpolate(Get(Get(data, "flow"), "name"))
                               \o <<" ID: ">>
                               \o Interpolate(Get(Get(data, "flow"), "_id"))))

\* lines 666-679
executeFlow(args, response) ==
  LET data == Get(response, "data")
  IN  IF IsNullish(data) THEN CannotRead("executionId")
      ELSE Return(ToolResult(
             <<"Flujo ejecutado exitosamente. Execution ID: ">>
               \o Interpolate(Or(Get(data, "executionId"), Str(<<"N/A">>)))
               \o <<" Estado: ">>
               \o Interpolate(Or(Get(data, "status"), Str(<<"iniciado">>)))))

\* lines 681-692
pauseFlow(args, response) ==
  LET data == Get(response, "data")
  IN  IF IsNullish(data) THEN CannotRead("status")
      ELSE Return(ToolResult(
             <<"Flujo pausado exitosamente. Estado: ">>
               \o Interpolate(Or(Get(data, "status"), Str(<<"pausado">>)))))

\* lines 694-705
resumeFlow(args, response) ==
  LET data == Get(response, "data")
  IN  IF IsNullish(data) THEN CannotRead("status")
      ELSE Return(ToolResult(
             <<"Flujo reanudado exitosamente. Estado: ">>
               \o Interpolate(Or(Get(data, "status"), Str(<<"activo">>)))))

\* lines 707-723
listMCPServers(response) ==
  LET data == Get(response, "data")
  IN  IF IsNullish(data) THEN CannotRead("servers")
      ELSE LET servers == Or(Get(data, "servers"), Arr(<<>>))
           IN  IF servers.t # "array"
                 THEN Throw(TypeError("servers.map is not a function"))
                 ELSE Return(ToolResult(
                        <<"Servidores MCP (", ToString(Len(servers.xs)), "): ">>
                          \o (IF servers.xs = <<>>
                                THEN <<"No hay servidores MCP configurados">>
                                ELSE Lines(servers.xs))))

\* lines 725-741: the response is not read
createMCPServer(args, response) ==
  Return(ToolResult(<<"Servidor MCP ">> \o Interpolate(Get(args, "name"))
                      \o <<" registrado exitosamente. Comando: ">>
                      \o Interpolate(Get(args, "command"))
                      \o <<" Estado: registrado">>))

\* lines 752-754: one line for each process
RECURSIVE ProcessLines(_)
ProcessLines(items) ==
  IF items = <<>> THEN <<>>
  ELSE <<"* ">>
         \o Interpolate(Or(Get(Head(items), "processId"), Get(Head(items), "_id")))
         \o <<" - Estado: ">> \o Interpolate(Get(Head(items), "status"))
         \o ProcessLines(Tail(items))

\* lines 743-784: the method catches its own errors
getFlowExecutions(args, reply) ==
  IF reply.t = "throw"
    THEN Return(ToolResult(<<"Error de conexion: ">>
                             \o Interpolate(Get(reply.e, "message"))))
  ELSE IF IsSuccess(reply.v)
    THEN LET processes == Or(Get(Get(reply.v, "data"), "processes"), Arr(<<>>))
         IN  IF processes.t # "array"
               THEN Return(ToolResult(<<"Error de conexion: ",
                                        "processes.map is not a function">>))
               ELSE Return(ToolResult(
                      <<"Ejecuciones del flujo (", ToString(Len(processes.xs)), "): ">>
                        \o (IF processes.xs = <<>> THEN <<"No hay ejecuciones">>
                            ELSE ProcessLines(processes.xs))))
  ELSE Return(ToolResult(
         <<"Error: ">>
           \o Interpolate(Or(Get(Get(reply.v, "data"), "message"),
                             Str(<<"No se pudieron obtener las ejecuciones">>)))))

\* the tool method of the frame, after its await completed with `reply`
toolResume(toolFrame, reply) ==
  IF toolFrame.route = Str(<<"get_flow_executions">>)
    THEN getFlowExecutions(toolFrame.args, reply)
  ELSE IF reply.t = "throw" THEN reply
  ELSE CASE toolFrame.route = Str(<<"create_flow">>) -> createFlow(toolFrame.args, reply.v)
         [] toolFrame.route = Str(<<"list_flows">>) -> listFlows(toolFrame.args, reply.v)
         [] toolFrame.route = Str(<<"get_flow">>) -> getFlow(toolFrame.args, reply.v)
         [] toolFrame.route = Str(<<"execute_flow">>) -> executeFlow(toolFrame.args, reply.v)
         [] toolFrame.route = Str(<<"pause_flow">>) -> pauseFlow(toolFrame.args, reply.v)
         [] toolFrame.route = Str(<<"resume_flow">>) -> resumeFlow(toolFrame.args, reply.v)
         [] toolFrame.route = Str(<<"list_mcp_servers">>) -> listMCPServers(reply.v)
         [] toolFrame.route = Str(<<"create_mcp_server">>) ->
              createMCPServer(toolFrame.args, reply.v)

\* a handler without its try/catch: the exception leaves the handler
callToolCatchMissing(step, name) == step

\* lines 234-244: catch (error) of the handler
callToolCatch(step, name) ==
  IF step.t = "throw"
    THEN Return(ToolError(
           <<"Error ejecutando ">> \o Interpolate(name) \o <<": ">>
             \o Interpolate(Or(Get(Get(Get(step.e, "response"), "data"), "error"),
                               Get(step.e, "message")))))
    ELSE step

\* line 210: const { name, arguments: args } = request.params
callToolStart(req) ==
  callToolCatch(switchName(Get(Get(req, "params"), "name"),
                           Get(Get(req, "params"), "arguments")),
                Get(Get(req, "params"), "name"))

callToolResume(toolFrame, reply) ==
  callToolCatch(toolResume(toolFrame, reply), toolFrame.route)

(***************************************************************************)
(* Tool invocations: the requests a host sends and what the backend        *)
(* answers to the call of each tool.                                       *)
(***************************************************************************)
CallToolRequest(name, args) ==
  Obj([params |-> Obj([name |-> Str(<<name>>), arguments |-> args])])

\* no arguments, an empty arguments object, the arguments of the schemas
ToolArguments ==
  {Undefined,
   Obj([verbose |-> Bool(TRUE)]),
   Obj([name |-> Str(<<"nuevo">>), flowId |-> Str(<<"f1">>),
        command |-> Str(<<"node">>)])}

ToolRequests ==
  {CallToolRequest(n, a) : n \in ToolNames \cup {"delete_flow"}, a \in ToolArguments}

\* the body of a successful reply of each endpoint
ToolBodies(endpoint) ==
  CASE endpoint = "POST /api/flows" ->
         {SuccessBody("data", Obj([_id |-> Str(<<"f1">>), name |-> Str(<<"nuevo">>),
                                   status |-> Str(<<"draft">>)]))}
    [] endpoint = "GET /api/flows" ->
         {SuccessBody("data", Arr(FlowList(n))) : n \in {0, 2}}
           \cup {SuccessBody("data", Obj([total |-> Num(2)]))}
    [] endpoint = "GET /api/flows/<id>" ->
         {Obj([success |-> Bool(TRUE), flow |-> Flow(1)])}
    [] endpoint = "POST /api/flows/<id>/execute" ->
         {Obj([success |-> Bool(TRUE), executionId |-> Str(<<"e1">>),
               status |-> Str(<<"running">>)])}
    [] endpoint \in {"POST /api/flows/<id>/pause", "POST /api/flows/<id>/resume"} ->
         {Obj([success |-> Bool(TRUE), status |-> Str(<<"paused">>)])}
    [] endpoint = "GET /api/mcp/servers" ->
         {SuccessBody("servers", Arr(<<Obj([name |-> Str(<<"server">>)])>>))}
    [] endpoint = "POST /api/mcp/servers" ->
         {Obj([success |-> Bool(TRUE)])}
    [] endpoint = "GET /api/flows/<id>/processes" ->
         {SuccessBody("processes", Arr(ProcessList(<<"f1">>))),
          Obj([success |-> Bool(TRUE)])}

ToolReplies(call) ==
  {Throw(e) : e \in ApiErrors \cup {HttpError(400, Obj([error |-> BackendMessage]))}}
    \cup {Return(Ok(body)) : body \in FailureBodies \cup ToolBodies(call.endpoint)}

\* the transport delivers a tool call and the handler runs to the await of
\* the tool's backend call, or to its return
CallTool(r) ==
  /\ process.pc = "serving"
  /\ pc[r] = "idle"
  /\ r = 1 \/ pc[1] # "idle"
  /\ \E req \in (IF r = 1 THEN ToolRequests ELSE {request[1]}) :
       /\ request' = [request EXCEPT ![r] = req]
       /\ Advance(r, callToolStart(req))
  /\ clock' = clock + 1
  /\ UNCHANGED <<replies, answered, process>>

\* the backend answers the call of the tool and the handler runs on
ToolReply(r) ==
  /\ pc[r] = "awaiting"
  /\ LET call == calls[r][Len(calls[r])]
     IN  \E reply \in (IF call \in DOMAIN replies THEN {replies[call]}
                       ELSE ToolReplies(call)) :
           /\ replies' = IF call \in DOMAIN replies THEN replies
                         ELSE (call :> reply) @@ replies
           /\ Advance(r, callToolResume(frame[r], reply))
  /\ answered' = [answered EXCEPT ![r] = @ + 1]
  /\ clock' = clock + 1
  /\ UNCHANGED <<request, process>>

NextTools ==
  \/ ProgramAction
  \/ ServerStart
  \/ \E r \in Slots : CallTool(r)
  \/ \E r \in Slots : ToolReply(r)

SpecTools == Init /\ [][NextTools]_vars

(***************************************************************************)
(* C25: tool invocations.                                                  *)
(***************************************************************************)
ToolNameOf(r) == Get(Get(request[r], "params"), "name")
IsKnownTool(r) == ToolNameOf(r) \in {Str(<<n>>) : n \in ToolNames}
Tool(r, n) == ToolNameOf(r) = Str(<<n>>)
ToolCalled(r) == calls[r] # <<>> /\ calls[r][1] \in DOMAIN replies
ToolReplyOf(r) == replies[calls[r][1]]
ToolCallThrew(r) == ToolCalled(r) /\ ToolReplyOf(r).t = "throw"
ToolCallReturned(r) == ToolCalled(r) /\ ToolReplyOf(r).t = "return"
ToolBodyOf(r) == Get(ToolReplyOf(r).v, "data")

\* the fields of the reply body each tool shows in its text
ExpectedFields(r) ==
  CASE Tool(r, "create_flow") -> {"data"}
    [] Tool(r, "list_flows") -> {"data"}
    [] Tool(r, "get_flow") -> {"flow"}
    [] Tool(r, "execute_flow") -> {"executionId"}
    [] Tool(r, "pause_flow") -> {"status"}
    [] Tool(r, "resume_flow") -> {"status"}
    [] Tool(r, "list_mcp_servers") -> {"servers"}
    [] Tool(r, "get_flow_executions") -> {"success", "processes"}
    [] OTHER -> {}

MissingFields(r) ==
  /\ ToolCallReturned(r)
  /\ \E f \in ExpectedFields(r) : Get(ToolBodyOf(r), f) = Undefined

SingleText(r) ==
  /\ result[r].t = "return"
  /\ Len(result[r].v.content) = 1
  /\ result[r].v.content[1].type = "text"
  /\ result[r].v.content[1].text.t = "string"

ToolText(r) == result[r].v.content[1].text.s

DescribesError(r) ==
  /\ SingleText(r)
  /\ Head(ToolText(r)) \in {"Error ejecutando ", "Error de conexion: ", "Error: "}

FlaggedError(r) ==
  /\ SingleText(r)
  /\ "isError" \in DOMAIN result[r].v
  /\ result[r].v.isError

NamesTool(r) ==
  /\ SingleText(r)
  /\ ToolNameOf(r).t = "string"
  /\ \E i \in 1..Len(ToolText(r)) : <<ToolText(r)[i]>> = ToolNameOf(r).s

\* C25 as stated: a tool invocation never ends in an exception; for each of
\* the nine tools a backend call that throws, or a reply that lacks the
\* fields the tool shows, gives one text content describing the error; an
\* unknown tool name gives a result flagged isError that names the tool, and
\* no backend call is made for it.
C25_ToolFailuresDescribed ==
  \A r \in Slots :
    Done(r) =>
      /\ result[r].t = "return"
      /\ IsKnownTool(r) /\ (ToolCallThrew(r) \/ MissingFields(r))
           => DescribesError(r)
      /\ ~IsKnownTool(r)
           => FlaggedError(r) /\ NamesTool(r) /\ calls[r] = <<>>

\* the replies a tool cannot build its text from: no body at all (except for
\* create_mcp_server, which does not read its reply), no flow object
\* (create_flow, get_flow), no success flag (get_flow_executions)
Unusable(r) ==
  /\ MissingFields(r)
  /\ \/ IsNullish(ToolBodyOf(r))
     \/ Tool(r, "create_flow") \/ Tool(r, "get_flow")
     \/ Tool(r, "get_flow_executions") /\ ~Truthy(Get(ToolBodyOf(r), "success"))

\* the text shows a default in the place of the missing field
ShowsDefault(r) ==
  /\ SingleText(r)
  /\ \E i \in 1..Len(ToolText(r)) :
       ToolText(r)[i] \in {"N/A", "pausado", "activo", "No hay flujos disponibles",
                           "No hay servidores MCP configurados", "No hay ejecuciones"}

\* C25 amended: a tool invocation never ends in an exception and always gives
\* one text content; a backend call that throws, or a reply the tool cannot
\* build its text from, gives a text describing the error; a reply that lacks
\* only a field the tool has a default for gives a text with that default and
\* no error; an unknown tool name gives a result flagged isError that names
\* the tool, and no backend call is made for it.
C25_ToolFailuresDescribedOrDefaulted ==
  \A r \in Slots :
    Done(r) =>
      /\ SingleText(r)
      /\ IsKnownTool(r) /\ (ToolCallThrew(r) \/ Unusable(r))
           => DescribesError(r)
      /\ IsKnownTool(r) /\ MissingFields(r) /\ ~Unusable(r)
           => ShowsDefault(r) /\ ~DescribesError(r)
      /\ ~IsKnownTool(r)
           => FlaggedError(r) /\ NamesTool(r) /\ calls[r] = <<>>

\* execute_flow got a reply without executionId and answered with the default
C25_Witness ==
  /\ Done(1) /\ Tool(1, "execute_flow")
  /\ MissingFields(1) /\ ~Unusable(1)
  /\ ShowsDefault(1) /\ ~DescribesError(1)

=============================================================================
